---- MODULE Spec2Model ----
(***************************************************************************)
(* gas_alarm_notifier.py: a GPIO contact is watched by a 0.5 s poll loop   *)
(* (main thread) and by gpiozero edge callbacks (callback thread).  Both   *)
(* run check_and_alert() on the module globals last_state, cooldown_until  *)
(* and last_alarm_sent, without any lock.  A step of the model is one      *)
(* statement of check_and_alert() that reads or writes a global, the       *)
(* clock or the pin; notify() touches no global and is one step.           *)
(***************************************************************************)
EXTENDS Integers, Sequences, FiniteSets, TLC

(* ------------------------------ bounds --------------------------------- *)
\* The wall clock runs over 1..MaxTime (one unit is MIN_INTERVAL_S / 2).
MaxTime == 3
\* The number of physical transitions of the contact in a run.
MaxToggles == 2
\* The same, in the runs where evaluations happen one at a time.
MaxSerialToggles == 5

(* ------------------------- configuration (ENV) ------------------------- *)
\* datetime.min: earlier than every value datetime.now() returns.
DatetimeMin == 0
\* MIN_INTERVAL_S (default 300 s), in clock units of 150 s.
MIN_INTERVAL_S == 2
\* ACTIVE_HIGH defaults to "1".
ACTIVE_HIGH == TRUE

\* str.lower() on the domain of an address, as written in the environment file.
Lower(domain) ==
    CASE domain = "VTEXT.COM" -> "vtext.com"
      [] OTHER -> domain

\* r.lower().endswith("@vtext.com")
EndsWithVtext(addr) == Lower(addr) = "vtext.com"

\* Both channels configured: one phone number, one vtext gateway address
\* (written in capitals) and one plain email address.
ChannelsBoth ==
    [ TWILIO_ENABLED   |-> TRUE,
      TWILIO_SID       |-> TRUE,
      TWILIO_TOKEN     |-> TRUE,
      TWILIO_FROM      |-> TRUE,
      PHONE_LIST       |-> <<"+1555">>,
      SMTP_HOST        |-> TRUE,
      SMS_GATEWAY_LIST |-> <<"VTEXT.COM">>,
      EMAIL_TO_LIST    |-> <<"example.com">> ]

\* Other environment files: a channel switched off, a credential or a
\* recipient list left empty, more recipients.
ChannelConfigs ==
    { ChannelsBoth,
      [ChannelsBoth EXCEPT !.TWILIO_ENABLED = FALSE],
      [ChannelsBoth EXCEPT !.TWILIO_SID = FALSE],
      [ChannelsBoth EXCEPT !.TWILIO_TOKEN = FALSE],
      [ChannelsBoth EXCEPT !.TWILIO_FROM = FALSE],
      [ChannelsBoth EXCEPT !.PHONE_LIST = <<>>],
      [ChannelsBoth EXCEPT !.PHONE_LIST = <<"+1555", "+1666">>],
      [ChannelsBoth EXCEPT !.SMTP_HOST = FALSE],
      [ChannelsBoth EXCEPT !.SMS_GATEWAY_LIST = <<>>, !.EMAIL_TO_LIST = <<>>],
      [ChannelsBoth EXCEPT !.SMS_GATEWAY_LIST = <<"vzwpix.com">>, !.EMAIL_TO_LIST = <<>>],
      [ChannelsBoth EXCEPT !.SMS_GATEWAY_LIST = <<"vtext.com", "vzwpix.com">>],
      [ChannelsBoth EXCEPT !.TWILIO_ENABLED = FALSE, !.SMTP_HOST = FALSE] }

\* The configurations a run of the two threads is started with.
Configs == { [chan |-> ChannelsBoth, SEND_CLEAR |-> s] : s \in BOOLEAN }

\* The configurations a run of the poll loop alone is started with.
PollConfigs == { [chan |-> c, SEND_CLEAR |-> s] : c \in ChannelConfigs, s \in BOOLEAN }

\* The main thread's loop (lines 179-183) and gpiozero's callback thread
\* (lines 176-177).
Threads == {"poll", "callback"}

Other(p) == IF p = "poll" THEN "callback" ELSE "poll"

VARIABLES
    cfg,             \* the environment read at import (lines 13-38)
    clock,           \* the latest time datetime.now() has returned
    is_pressed,      \* button.is_pressed, the pin
    toggles,         \* physical transitions of the contact so far
    pending,         \* edge callbacks gpiozero has queued and not yet run
    last_state,      \* global last_state
    cooldown_until,  \* global cooldown_until
    last_alarm_sent, \* global last_alarm_sent
    pc,              \* per thread: the line check_and_alert() is at
    now,             \* per thread: local now
    state,           \* per thread: local state
    moved,           \* whether last_state has changed since line 147
    prior,           \* per thread: last_state and moved just before its line 157
    dispatch,        \* per thread: what its notify() attempted and returned
    events,          \* how many notifications of each kind were dispatched
                     \* and how many alarms were suppressed (line 167)
    clean,           \* per thread: no evaluation with another reading overlapped it
    quiet,           \* {r}: an evaluation of reading r has completed and no
                     \* other reading was sampled since it began; else {}
    obs              \* the order of the samples taken at line 153, when it
                     \* is being recorded

vars == <<cfg, clock, is_pressed, toggles, pending, last_state, cooldown_until,
          last_alarm_sent, pc, now, state, prior, dispatch, events, moved, clean,
          quiet, obs>>

globals == <<last_state, cooldown_until, last_alarm_sent>>
locals == <<now, state, prior, dispatch>>
history == <<moved, clean, quiet, obs>>

(* -------------------------------- IO ----------------------------------- *)
\* alarm_asserted(): pull_up=True, so pressed is LOW.
alarm_asserted ==
    LET logic_high == ~is_pressed
    IN  IF ACTIVE_HIGH THEN logic_high ELSE ~logic_high

(* ------------------------------ senders -------------------------------- *)
\* send_twilio without its try/except: the client's exception leaves it.
send_twilio_NoExcept(c, raiseAt) ==
    IF ~c.TWILIO_ENABLED
    THEN [ret |-> FALSE, raised |-> FALSE, calls |-> 0, done |-> 0]
    ELSE IF ~(c.TWILIO_SID /\ c.TWILIO_TOKEN /\ c.TWILIO_FROM /\ c.PHONE_LIST # <<>>)
    THEN [ret |-> FALSE, raised |-> FALSE, calls |-> 0, done |-> 0]
    ELSE IF raiseAt \in 1..Len(c.PHONE_LIST)
         THEN [ret |-> FALSE, raised |-> TRUE, calls |-> raiseAt,
               done |-> raiseAt - 1]
         ELSE [ret |-> TRUE, raised |-> FALSE, calls |-> Len(c.PHONE_LIST),
               done |-> Len(c.PHONE_LIST)]

\* send_twilio without the configuration test of line 69.
send_twilio_Unchecked(c, raiseAt) ==
    IF ~c.TWILIO_ENABLED
    THEN [ret |-> FALSE, raised |-> FALSE, calls |-> 0, done |-> 0]
    ELSE IF raiseAt \in 1..Len(c.PHONE_LIST)
         THEN [ret |-> FALSE, raised |-> FALSE, calls |-> raiseAt,
               done |-> raiseAt - 1]
         ELSE [ret |-> TRUE, raised |-> FALSE, calls |-> Len(c.PHONE_LIST),
               done |-> Len(c.PHONE_LIST)]

\* send_twilio(text).  raiseAt = k > 0: client.messages.create raises for the
\* k-th number; 0: no call raises.  ret is the value returned, raised whether
\* an exception leaves the function, calls the create() calls made, done
\* those that returned.
send_twilio(c, raiseAt) ==
    IF ~c.TWILIO_ENABLED
    THEN [ret |-> FALSE, raised |-> FALSE, calls |-> 0, done |-> 0]
    ELSE IF ~(c.TWILIO_SID /\ c.TWILIO_TOKEN /\ c.TWILIO_FROM /\ c.PHONE_LIST # <<>>)
    THEN [ret |-> FALSE, raised |-> FALSE, calls |-> 0, done |-> 0]
    ELSE IF raiseAt \in 1..Len(c.PHONE_LIST)
         THEN \* except Exception: logged, False
              [ret |-> FALSE, raised |-> FALSE, calls |-> raiseAt,
               done |-> raiseAt - 1]
         ELSE [ret |-> TRUE, raised |-> FALSE, calls |-> Len(c.PHONE_LIST),
               done |-> Len(c.PHONE_LIST)]

\* The non-empty recipient lists of send_email_sms, in the order they are sent.
Buckets(c) ==
    LET sms == SelectSeq(c.SMS_GATEWAY_LIST, LAMBDA r : EndsWithVtext(r))
        mms == SelectSeq(c.SMS_GATEWAY_LIST, LAMBDA r : ~EndsWithVtext(r))
        cc  == c.EMAIL_TO_LIST
    IN  SelectSeq(<<[kind |-> "sms", to |-> sms],
                    [kind |-> "mms", to |-> mms],
                    [kind |-> "email", to |-> cc]>>,
                  LAMBDA b : b.to # <<>>)

\* send_email_sms returning True once a bucket has been sent, whatever
\* happens to the buckets after it.
send_email_sms_Partial(c, raiseAt) ==
    IF ~(c.SMTP_HOST /\ (c.SMS_GATEWAY_LIST # <<>> \/ c.EMAIL_TO_LIST # <<>>))
    THEN [ret |-> FALSE, raised |-> FALSE, sent |-> <<>>]
    ELSE LET b == Buckets(c)
             n == IF raiseAt \in 1..Len(b) THEN raiseAt - 1 ELSE Len(b)
         IN  [ret |-> n > 0, raised |-> FALSE, sent |-> [i \in 1..n |-> b[i].kind]]

\* send_email_sms(text).  raiseAt = k > 0: the k-th _send (SMTP session)
\* raises; 0: none does.  sent is the buckets whose _send returned.
send_email_sms(c, raiseAt) ==
    IF ~(c.SMTP_HOST /\ (c.SMS_GATEWAY_LIST # <<>> \/ c.EMAIL_TO_LIST # <<>>))
    THEN [ret |-> FALSE, raised |-> FALSE, sent |-> <<>>]
    ELSE LET b == Buckets(c)
         IN  IF raiseAt \in 1..Len(b)
             THEN \* except Exception: logged, False
                  [ret |-> FALSE, raised |-> FALSE,
                   sent |-> [i \in 1..(raiseAt - 1) |-> b[i].kind]]
             ELSE IF b = <<>>
             THEN [ret |-> FALSE, raised |-> FALSE, sent |-> <<>>]
             ELSE [ret |-> TRUE, raised |-> FALSE,
                   sent |-> [i \in 1..Len(b) |-> b[i].kind]]

\* notify that goes on to the email relay whatever send_twilio returned.
notify_NoStop(c, twRaiseAt, emRaiseAt) ==
    LET tw == send_twilio(c, twRaiseAt)
        em == send_email_sms(c, emRaiseAt)
    IN  [attempts |-> <<[chan |-> "twilio", ret |-> tw.ret],
                        [chan |-> "email", ret |-> em.ret]>>,
         ok |-> tw.ret \/ em.ret, raised |-> tw.raised \/ em.raised,
         calls |-> tw.calls, done |-> tw.done, sent |-> em.sent]

\* notify(text): the channels attempted, in order, with what each returned,
\* the value returned, whether an exception leaves notify, the create() calls
\* send_twilio made and the buckets send_email_sms sent.
notify(c, twRaiseAt, emRaiseAt) ==
    LET tw == send_twilio(c, twRaiseAt)
        em == send_email_sms(c, emRaiseAt)
    IN  IF tw.raised
        THEN [attempts |-> <<[chan |-> "twilio", ret |-> FALSE]>>,
              ok |-> FALSE, raised |-> TRUE, calls |-> tw.calls,
              done |-> tw.done, sent |-> <<>>]
        ELSE IF tw.ret
        THEN [attempts |-> <<[chan |-> "twilio", ret |-> TRUE]>>,
              ok |-> TRUE, raised |-> FALSE, calls |-> tw.calls,
              done |-> tw.done, sent |-> <<>>]
        ELSE [attempts |-> <<[chan |-> "twilio", ret |-> FALSE],
                             [chan |-> "email", ret |-> em.ret]>>,
              ok |-> em.ret, raised |-> em.raised, calls |-> tw.calls,
              done |-> tw.done, sent |-> em.sent]

\* What the network may do to one notify() under configuration c.
TwilioFaults(c) == 0..Len(c.PHONE_LIST)
EmailFaults(c) == 0..Len(Buckets(c))

\* Line 157 not reached in this evaluation (yet).
NoPrior == [was |-> FALSE, moved |-> FALSE]

\* No notify() in this evaluation (yet).
NoDispatch ==
    [attempts |-> <<>>, ok |-> FALSE, calls |-> 0, done |-> 0, sent |-> <<>>]

(* --------------------------- sample order ------------------------------ *)
\* The reading of line 147, recovered from the pin and its transitions.
StartedAsserted == IF toggles % 2 = 0 THEN alarm_asserted ELSE ~alarm_asserted

\* The order of samples is not recorded.
ObsOff == [on |-> FALSE, age |-> [p \in Threads |-> "new"], alt |-> 0]

\* Nothing sampled yet.  age[p] tells how p's sample of line 153 stands to
\* the other thread's: "new" (none taken after it is pending or applied),
\* "old" (the other thread sampled later and has not reached line 157),
\* "stale" (the other thread sampled later and has executed line 157).
\* alt counts the samples taken so far while each differed from the one
\* before it (the first from the reading of line 147), and is -1 after that.
ObsOn == [on |-> TRUE, age |-> [p \in Threads |-> "new"], alt |-> 0]

\* p is between line 153 and line 157 with its sample.
HoldsSample(p) == pc[p] \in {"L155", "L157"}

\* The sample taken last, while the samples alternate.
LastSample(o) == IF o.alt % 2 = 0 THEN StartedAsserted ELSE ~StartedAsserted

\* Line 153 by p, reading r.
Sampled(o, p, r) ==
    IF ~o.on THEN o
    ELSE [on  |-> TRUE,
          age |-> [q \in Threads |->
                     IF q = p THEN "new"
                     ELSE IF HoldsSample(q) /\ o.age[q] = "new" THEN "old"
                     ELSE o.age[q]],
          alt |-> IF o.alt >= 0 /\ r # LastSample(o) THEN o.alt + 1 ELSE -1]

\* Line 157 by p.
Applied(o, p) ==
    IF ~o.on THEN o
    ELSE [o EXCEPT !.age = [q \in Threads |->
                     IF q = p THEN "new"
                     ELSE IF HoldsSample(q) /\ o.age[p] = "new" /\ o.age[q] = "old"
                          THEN "stale"
                     ELSE o.age[q]]]

\* p returns.
Returned(o, p) ==
    IF ~o.on THEN o ELSE [o EXCEPT !.age[p] = "new"]

(* ------------------------------- state --------------------------------- *)
\* Lines 145-147, with the environment file one of `configs`; o tells
\* whether the order of samples is recorded.
Boot(configs, o) ==
    /\ obs = o
    /\ cfg \in configs
    /\ clock = 1
    /\ is_pressed \in BOOLEAN
    /\ toggles = 0
    /\ pending = 0
    /\ last_alarm_sent = DatetimeMin
    /\ cooldown_until = DatetimeMin
    /\ last_state = alarm_asserted
    /\ pc = [p \in Threads |-> "idle"]
    /\ now = [p \in Threads |-> DatetimeMin]
    /\ state = [p \in Threads |-> FALSE]
    /\ prior = [p \in Threads |-> NoPrior]
    /\ moved = FALSE
    /\ dispatch = [p \in Threads |-> NoDispatch]
    /\ events = [AlarmRaised |-> 0, AlarmCleared |-> 0, Suppressed |-> 0]
    /\ clean = [p \in Threads |-> TRUE]
    /\ quiet = {}

Start(configs) == Boot(configs, ObsOff)

Init == Start(Configs)

(* ---------------------------- environment ------------------------------ *)
\* The contact changes, at most n times in a run; gpiozero queues
\* when_pressed / when_released.
Flip(n) ==
    /\ toggles < n
    /\ is_pressed' = ~is_pressed
    /\ toggles' = toggles + 1
    /\ pending' = pending + 1
    /\ UNCHANGED <<cfg, clock, globals, pc, locals, events, history>>

Toggle == Flip(MaxToggles)

(* -------------------------- check_and_alert ---------------------------- *)
\* A caller that does not come back for another evaluation: the loop of
\* lines 181-183 without its `while True`.
Return_Exit(p) ==
    /\ pc' = [pc EXCEPT ![p] = "crashed"]
    /\ now' = [now EXCEPT ![p] = DatetimeMin]
    /\ state' = [state EXCEPT ![p] = FALSE]
    /\ prior' = [prior EXCEPT ![p] = NoPrior]
    /\ dispatch' = [dispatch EXCEPT ![p] = NoDispatch]
    /\ UNCHANGED history

\* Back to the caller: the poll loop sleeps, the callback thread waits.
Return(p) ==
    /\ pc' = [pc EXCEPT ![p] = "idle"]
    /\ now' = [now EXCEPT ![p] = DatetimeMin]
    /\ state' = [state EXCEPT ![p] = FALSE]
    /\ prior' = [prior EXCEPT ![p] = NoPrior]
    /\ dispatch' = [dispatch EXCEPT ![p] = NoDispatch]
    /\ clean' = [clean EXCEPT ![p] = TRUE]
    /\ quiet' = IF clean[p] THEN {state[p]} ELSE quiet
    /\ obs' = Returned(obs, p)
    /\ UNCHANGED moved

\* Line 152, entered from the loop (line 182) or from a callback (lines
\* 176-177).  The clock is read nowhere else: the time that has passed since
\* it was last read shows here.
ReadNow(p) ==
    /\ pc[p] = "idle"
    /\ p = "callback" => pending > 0
    /\ pending' = IF p = "callback" THEN pending - 1 ELSE pending
    /\ \E t \in clock..MaxTime :
         /\ clock' = t
         /\ now' = [now EXCEPT ![p] = t]
    /\ pc' = [pc EXCEPT ![p] = "L153"]
    /\ UNCHANGED <<cfg, is_pressed, toggles, globals, state, prior, dispatch,
                   events, history>>

\* Whether q holds a reading other than r.
HoldsOther(q, r) == pc[q] \notin {"idle", "L153"} /\ state[q] # r

\* Line 153.
ReadState(p) ==
    /\ pc[p] = "L153"
    /\ state' = [state EXCEPT ![p] = alarm_asserted]
    /\ pc' = [pc EXCEPT ![p] = "L155"]
    /\ clean' = [clean EXCEPT ![p] = ~HoldsOther(Other(p), alarm_asserted),
                              ![Other(p)] = @ /\ ~HoldsOther(Other(p), alarm_asserted)]
    /\ quiet' = quiet \cap {alarm_asserted}
    /\ obs' = Sampled(obs, p, alarm_asserted)
    /\ UNCHANGED <<cfg, clock, is_pressed, toggles, pending, globals, now, prior,
                   dispatch, events, moved>>

\* Line 155: state != last_state
Changed(p) == state[p] # last_state

\* Line 155.
Compare(p) ==
    /\ pc[p] = "L155"
    /\ IF Changed(p)
       THEN /\ pc' = [pc EXCEPT ![p] = "L157"]
            /\ UNCHANGED <<locals, history>>
       ELSE Return(p)
    /\ UNCHANGED <<cfg, clock, is_pressed, toggles, pending, globals, events>>

\* Line 157 without the `global` declaration: the assignment makes a local.
Assigned_Local(p) == last_state

\* Line 157: what last_state is assigned.
Assigned(p) == state[p]

\* Lines 159 and 170 with the clear notification sent whatever SEND_CLEAR.
AfterSetState_AlwaysClear(p) ==
    IF state[p] THEN "L161" ELSE "L171"

\* Lines 159 and 170 with clears rate-limited like alarms.
AfterSetState_RateLimited(p) ==
    IF state[p] THEN "L161"
    ELSE IF cfg.SEND_CLEAR /\ now[p] >= cooldown_until THEN "L171" ELSE "L173"

\* Lines 159 and 170: the branch on the local state and on SEND_CLEAR.
AfterSetState(p) ==
    IF state[p] THEN "L161"
    ELSE IF cfg.SEND_CLEAR THEN "L171" ELSE "L173"

\* Line 157, then the branches of lines 159 and 170.
SetState(p) ==
    /\ pc[p] = "L157"
    /\ last_state' = Assigned(p)
    /\ prior' = [prior EXCEPT ![p] = [was |-> last_state, moved |-> moved]]
    /\ moved' = (moved \/ last_state' # last_state)
    /\ obs' = Applied(obs, p)
    /\ pc' = [pc EXCEPT ![p] = AfterSetState(p)]
    /\ UNCHANGED <<cfg, clock, is_pressed, toggles, pending, cooldown_until,
                   last_alarm_sent, now, state, dispatch, events, clean, quiet>>

\* Line 161 with > for >=.
CooldownPassed_Strict(p) == now[p] > cooldown_until

\* Line 161: now >= cooldown_until
CooldownPassed(p) == now[p] >= cooldown_until

\* Line 161; the else branch (line 167) logs the suppressed alarm and returns.
CheckCooldown(p) ==
    /\ pc[p] = "L161"
    /\ IF CooldownPassed(p)
       THEN /\ pc' = [pc EXCEPT ![p] = "L162"]
            /\ UNCHANGED <<locals, events, history>>
       ELSE /\ events' = [events EXCEPT !.Suppressed = @ + 1]
            /\ Return(p)
    /\ UNCHANGED <<cfg, clock, is_pressed, toggles, pending, globals>>

\* notify(text) called by p, which continues at line `next` unless an
\* exception leaves notify: then it leaves check_and_alert too and ends the
\* loop (only KeyboardInterrupt is caught, line 184) or the callback.
Notify(p, kind, next) ==
    /\ \E tw \in TwilioFaults(cfg.chan), em \in EmailFaults(cfg.chan) :
         LET r == notify(cfg.chan, tw, em)
         IN  /\ dispatch' = [dispatch EXCEPT ![p] =
                    [attempts |-> r.attempts, ok |-> r.ok, calls |-> r.calls,
                     done |-> r.done, sent |-> r.sent]]
             /\ pc' = [pc EXCEPT ![p] = IF r.raised THEN "crashed" ELSE next]
    /\ events' = [events EXCEPT ![kind] = @ + 1]
    /\ UNCHANGED <<cfg, clock, is_pressed, toggles, pending, globals, now, state,
                   prior, history>>

\* Line 162.
NotifyAlarm(p) ==
    /\ pc[p] = "L162"
    /\ Notify(p, "AlarmRaised", "L163")

\* Line 163.
SetLastSent(p) ==
    /\ pc[p] = "L163"
    /\ last_alarm_sent' = now[p]
    /\ pc' = [pc EXCEPT ![p] = "L165"]
    /\ UNCHANGED <<cfg, clock, is_pressed, toggles, pending, last_state,
                   cooldown_until, locals, events, history>>

\* Line 165 of a notifier that retries: after a dispatch that failed it puts
\* last_state back to Normal, so that the next evaluation sees the edge again.
SetCooldown_Retry(p) ==
    /\ pc[p] = "L165"
    /\ cooldown_until' = IF dispatch[p].ok THEN now[p] + MIN_INTERVAL_S
                          ELSE cooldown_until
    /\ last_state' = IF dispatch[p].ok THEN last_state ELSE FALSE
    /\ Return(p)
    /\ UNCHANGED <<cfg, clock, is_pressed, toggles, pending, last_alarm_sent,
                   events>>

\* Line 165.
SetCooldown(p) ==
    /\ pc[p] = "L165"
    /\ cooldown_until' = now[p] + MIN_INTERVAL_S
    /\ Return(p)
    /\ UNCHANGED <<cfg, clock, is_pressed, toggles, pending, last_state,
                   last_alarm_sent, events>>

\* Line 171.
NotifyClear(p) ==
    /\ pc[p] = "L171"
    /\ Notify(p, "AlarmCleared", "L173")

\* Line 173 left out: the clear branch returns without resetting.
ResetCooldown_Skipped(p) ==
    /\ pc[p] = "L173"
    /\ Return(p)
    /\ UNCHANGED <<cfg, clock, is_pressed, toggles, pending, globals, events>>

\* Line 173.
ResetCooldown(p) ==
    /\ pc[p] = "L173"
    /\ cooldown_until' = DatetimeMin
    /\ Return(p)
    /\ UNCHANGED <<cfg, clock, is_pressed, toggles, pending, last_state,
                   last_alarm_sent, events>>

\* The poll loop and the callback thread, statement by statement.
Next ==
    \/ Toggle
    \/ \E p \in Threads : ReadNow(p)
    \/ \E p \in Threads : ReadState(p)
    \/ \E p \in Threads : Compare(p)
    \/ \E p \in Threads : SetState(p)
    \/ \E p \in Threads : CheckCooldown(p)
    \/ \E p \in Threads : NotifyAlarm(p)
    \/ \E p \in Threads : SetLastSent(p)
    \/ \E p \in Threads : SetCooldown(p)
    \/ \E p \in Threads : NotifyClear(p)
    \/ \E p \in Threads : ResetCooldown(p)

Spec == Init /\ [][Next]_vars

\* The poll loop alone (no edge callback is delivered), under every
\* configuration of the channels.
InitPoll == Start(PollConfigs)

NextPoll ==
    \/ Toggle
    \/ ReadNow("poll")
    \/ ReadState("poll")
    \/ Compare("poll")
    \/ SetState("poll")
    \/ CheckCooldown("poll")
    \/ NotifyAlarm("poll")
    \/ SetLastSent("poll")
    \/ SetCooldown("poll")
    \/ NotifyClear("poll")
    \/ ResetCooldown("poll")

SpecPoll == InitPoll /\ [][NextPoll]_vars

\* A statement of the main thread: line 182 and the lines of check_and_alert
\* it runs.
PollStep ==
    \/ ReadNow("poll")
    \/ ReadState("poll")
    \/ Compare("poll")
    \/ SetState("poll")
    \/ CheckCooldown("poll")
    \/ NotifyAlarm("poll")
    \/ SetLastSent("poll")
    \/ SetCooldown("poll")
    \/ NotifyClear("poll")
    \/ ResetCooldown("poll")

\* The poll loop alone, kept running: the main thread is scheduled again
\* after each sleep of line 183, and every call of notify returns.
SpecPollFair == InitPoll /\ [][NextPoll]_vars /\ WF_vars(PollStep)

\* The two threads as in Spec, with the order of their samples recorded.
InitAudit == Boot(Configs, ObsOn)

SpecAudit == InitAudit /\ [][Next]_vars

\* Line 152 entered while the other thread is not inside check_and_alert:
\* the runs in which whole evaluations happen one at a time.
Enter(p) ==
    /\ pc[Other(p)] = "idle"
    /\ ReadNow(p)

ToggleSerial == Flip(MaxSerialToggles)

NextSerial ==
    \/ ToggleSerial
    \/ \E p \in Threads : Enter(p)
    \/ \E p \in Threads : ReadState(p)
    \/ \E p \in Threads : Compare(p)
    \/ \E p \in Threads : SetState(p)
    \/ \E p \in Threads : CheckCooldown(p)
    \/ \E p \in Threads : NotifyAlarm(p)
    \/ \E p \in Threads : SetLastSent(p)
    \/ \E p \in Threads : SetCooldown(p)
    \/ \E p \in Threads : NotifyClear(p)
    \/ \E p \in Threads : ResetCooldown(p)

SpecSerial == Init /\ [][NextSerial]_vars

(* ------------------------------ claims --------------------------------- *)
\* p takes the step that leaves line `at`.
Leaves(p, at) == pc[p] = at /\ pc'[p] # at

\* C1: once an evaluation of reading r has completed, with no evaluation of
\* another reading under way or sampled since it began, a further evaluation
\* of the same reading leaves last_state, cooldown_until and last_alarm_sent
\* alone and dispatches nothing: it returns at line 155.
C1_Idempotent ==
    [][\A p \in Threads :
         (Leaves(p, "L155") /\ quiet = {state[p]})
            => (pc'[p] = "idle" /\ UNCHANGED <<globals, events>>)]_vars

\* A poll finds the contact still asserted after the alarm was raised.
C1_Witness ==
    /\ pc["poll"] = "L155"
    /\ state["poll"] = TRUE
    /\ quiet = {TRUE}
    /\ events.AlarmRaised = 1

\* C2: an evaluation on the Normal->Asserted branch that finds the deadline
\* t0 + I of an earlier AlarmRaised: with now < t0 + I it dispatches nothing
\* and leaves cooldown_until alone (last_state was set to Asserted at line
\* 157); with now >= t0 + I it dispatches exactly one AlarmRaised and sets
\* cooldown_until to now + I.
C2_CooldownCorrect ==
    [][\A p \in Threads :
         /\ (Leaves(p, "L157") /\ state[p]) => last_state' = TRUE
         /\ (Leaves(p, "L161") /\ cooldown_until # DatetimeMin) =>
               IF now[p] < cooldown_until
               THEN /\ pc'[p] = "idle"
                    /\ events'.AlarmRaised = events.AlarmRaised
                    /\ events'.AlarmCleared = events.AlarmCleared
                    /\ UNCHANGED globals
               ELSE pc'[p] = "L162"
         /\ Leaves(p, "L162") =>
               /\ pc'[p] = "L163"
               /\ events'.AlarmRaised = events.AlarmRaised + 1
               /\ events'.AlarmCleared = events.AlarmCleared
         /\ Leaves(p, "L163") => pc'[p] = "L165"
         /\ Leaves(p, "L165") => cooldown_until' = now[p] + MIN_INTERVAL_S]_vars

\* An alarm was suppressed, and the contact has not been seen clear since the
\* AlarmRaised that set the deadline.
C2_Witness ==
    /\ cfg.SEND_CLEAR
    /\ events.Suppressed = 1
    /\ events.AlarmRaised = 1
    /\ events.AlarmCleared = 0
    /\ last_state = TRUE
    /\ cooldown_until = last_alarm_sent + MIN_INTERVAL_S
    /\ \A p \in Threads : pc[p] = "idle"

\* p's assignment of line 157 changed last_state from Normal to Asserted, and
\* last_state was Normal by an earlier change from Asserted to Normal.
ReassertedAfterClear(p) == state[p] /\ ~prior[p].was /\ prior[p].moved

\* C3: every evaluation on the Asserted->Normal branch ends by setting
\* cooldown_until to datetime.min, so that the evaluation that next changes
\* last_state from Normal to Asserted passes the check of line 161 and
\* dispatches AlarmRaised.
C3_NextAssertionSends ==
    [][\A p \in Threads :
         /\ Leaves(p, "L173") => cooldown_until' = DatetimeMin
         /\ (Leaves(p, "L161") /\ ReassertedAfterClear(p)) => pc'[p] = "L162"]_vars

\* C4: with SEND_CLEAR off no AlarmCleared is ever dispatched; the
\* Asserted->Normal branch sets last_state to Normal, goes straight to line
\* 173 and there resets cooldown_until, dispatching nothing.
C4_NoClearWhenDisabled ==
    [][~cfg.SEND_CLEAR =>
         /\ events'.AlarmCleared = 0
         /\ \A p \in Threads :
              /\ (Leaves(p, "L157") /\ ~state[p]) =>
                    (last_state' = FALSE /\ pc'[p] = "L173" /\ events' = events)
              /\ Leaves(p, "L173") =>
                    (cooldown_until' = DatetimeMin /\ pc'[p] = "idle"
                     /\ events' = events)]_vars

\* With SEND_CLEAR off, an alarm was raised and the contact has cleared.
C4_Witness ==
    /\ ~cfg.SEND_CLEAR
    /\ events.AlarmRaised = 1
    /\ events.AlarmCleared = 0
    /\ last_state = FALSE
    /\ cooldown_until = DatetimeMin
    /\ last_alarm_sent # DatetimeMin
    /\ \A p \in Threads : pc[p] = "idle"

\* C5: notify attempts the telephony channel first, the email relay if and
\* only if the telephony channel returned false, and after it; it returns
\* true iff an attempted channel returned true.
C5_FallbackOrder ==
    \A p \in Threads :
       LET d == dispatch[p]
       IN  d # NoDispatch =>
             /\ Len(d.attempts) \in {1, 2}
             /\ d.attempts[1].chan = "twilio"
             /\ Len(d.attempts) = 2 <=> ~d.attempts[1].ret
             /\ Len(d.attempts) = 2 => d.attempts[2].chan = "email"
             /\ d.ok <=> \E i \in 1..Len(d.attempts) : d.attempts[i].ret

\* The telephony channel failed and the email relay delivered.
C5_Witness ==
    /\ dispatch["poll"].attempts =
          <<[chan |-> "twilio", ret |-> FALSE], [chan |-> "email", ret |-> TRUE]>>
    /\ dispatch["poll"].ok

\* Every channel notify attempted returned false.
AllFailed(d) ==
    /\ d.attempts # <<>>
    /\ \A i \in 1..Len(d.attempts) : ~d.attempts[i].ret

\* C6: no exception leaves notify or check_and_alert; when every channel
\* fails notify returns false, and check_and_alert goes on to its
\* assignments (lines 163, 165, 173) and returns to the loop.
C6_AllFailAbsorbed ==
    [][\A p \in Threads :
         /\ pc'[p] # "crashed"
         /\ AllFailed(dispatch'[p]) => ~dispatch'[p].ok
         /\ AllFailed(dispatch[p]) =>
              /\ Leaves(p, "L163") => (last_alarm_sent' = now[p] /\ pc'[p] = "L165")
              /\ Leaves(p, "L165") =>
                    (cooldown_until' = now[p] + MIN_INTERVAL_S /\ pc'[p] = "idle")
              /\ Leaves(p, "L173") =>
                    (cooldown_until' = DatetimeMin /\ pc'[p] = "idle")]_vars

\* Both channels failed for an AlarmRaised and the evaluation went on.
C6_Witness ==
    /\ pc["poll"] = "L165"
    /\ AllFailed(dispatch["poll"])
    /\ Len(dispatch["poll"].attempts) = 2
    /\ last_alarm_sent = now["poll"]
    /\ last_state = TRUE

\* p has sampled the contact and has not yet finished its writes.
Evaluating(p) == pc[p] \notin {"idle", "L153"}

\* C7: the poll loop and the edge callback are never both between sampling
\* the reading and the last write to last_state and cooldown_until.
C7_MutualExclusion == ~(Evaluating("poll") /\ Evaluating("callback"))

\* The physical Normal->Asserted and Asserted->Normal transitions so far.
Rising == IF alarm_asserted THEN (toggles + 1) \div 2 ELSE toggles \div 2
Falling == toggles - Rising

\* C8: at most one AlarmRaised is dispatched per physical Normal->Asserted
\* transition of the contact and at most one AlarmCleared per physical
\* Asserted->Normal transition.
C8_OnePerTransition ==
    /\ events.AlarmRaised <= Rising
    /\ events.AlarmCleared <= Falling

\* C9: AlarmRaised is dispatched only at line 162, by an evaluation whose
\* assignment of line 157 changed last_state from Normal to Asserted and
\* whose check of line 161 found now >= cooldown_until.
C9_RaisedOnlyOnEdge ==
    [][/\ events'.AlarmRaised # events.AlarmRaised =>
             \E p \in Threads : Leaves(p, "L162")
       /\ \A p \in Threads :
            /\ Leaves(p, "L162") => (state[p] /\ ~prior[p].was)
            /\ (pc[p] = "L161" /\ pc'[p] = "L162") => now[p] >= cooldown_until]_vars

\* C10: with SEND_CLEAR on, every evaluation on the Asserted->Normal branch
\* goes to line 171 whatever cooldown_until is, dispatches exactly one
\* AlarmCleared there and nothing at line 173.
C10_ClearsNotRateLimited ==
    [][cfg.SEND_CLEAR =>
         \A p \in Threads :
            /\ (Leaves(p, "L157") /\ ~state[p]) => pc'[p] = "L171"
            /\ Leaves(p, "L171") =>
                  /\ pc'[p] = "L173"
                  /\ events'.AlarmCleared = events.AlarmCleared + 1
                  /\ events'.AlarmRaised = events.AlarmRaised
            /\ Leaves(p, "L173") => (pc'[p] = "idle" /\ events' = events)]_vars

\* An AlarmCleared was dispatched at a time an alarm would have been
\* suppressed.
C10_Witness ==
    \E p \in Threads :
       /\ pc[p] = "L173"
       /\ prior[p].was
       /\ dispatch[p] # NoDispatch
       /\ events.AlarmCleared = 1
       /\ cooldown_until # DatetimeMin
       /\ now[p] < cooldown_until

\* The email relay was attempted by the notify() of d.
EmailAttempted(d) == Len(d.attempts) = 2

\* No recipient is configured for the email relay.
NoRecipients(c) == c.SMS_GATEWAY_LIST = <<>> /\ c.EMAIL_TO_LIST = <<>>

\* The kinds of the non-empty buckets, in the order they are sent.
BucketKinds(c) == [i \in 1..Len(Buckets(c)) |-> Buckets(c)[i].kind]

\* C13 as claimed: send_email_sms returns true whenever at least one bucket
\* was sent, also when the send of a later bucket fails, and false when no
\* recipient is configured.
C13_SuccessIfAnyBucketSent ==
    \A p \in Threads :
       LET d == dispatch[p]
       IN  EmailAttempted(d) =>
             /\ d.sent # <<>> => d.attempts[2].ret
             /\ NoRecipients(cfg.chan) => ~d.attempts[2].ret

\* C13 amended: send_email_sms returns true iff the send of every non-empty
\* bucket returned (and there is one); a send that raises makes it return
\* false whatever was sent before it.  With no recipient configured, or no
\* SMTP host, it returns false and sends nothing.
C13_SuccessIffAllBucketsSent ==
    \A p \in Threads :
       LET d == dispatch[p]
       IN  EmailAttempted(d) =>
             /\ d.attempts[2].ret <=>
                   (d.sent # <<>> /\ d.sent = BucketKinds(cfg.chan))
             /\ (NoRecipients(cfg.chan) \/ ~cfg.chan.SMTP_HOST) =>
                   (~d.attempts[2].ret /\ d.sent = <<>>)

\* The short-form bucket was sent, the send of a later bucket raised, and
\* send_email_sms returned false.
C13_Witness ==
    /\ EmailAttempted(dispatch["poll"])
    /\ dispatch["poll"].sent = <<"sms">>
    /\ ~dispatch["poll"].attempts[2].ret
    /\ ~dispatch["poll"].ok

\* Line 67 or line 69 returns False.
Unconfigured(c) ==
    \/ ~c.TWILIO_ENABLED
    \/ ~(c.TWILIO_SID /\ c.TWILIO_TOKEN /\ c.TWILIO_FROM)
    \/ c.PHONE_LIST = <<>>

\* C14: disabled or unconfigured, send_twilio returns false without a client
\* call and notify attempts the email relay; configured, it returns true iff
\* the create() call of every phone number returned, and a call that raises
\* makes it return false, with the email relay attempted next, whatever
\* numbers were sent before.
C14_TelephonyAllOrNothing ==
    \A p \in Threads :
       LET d == dispatch[p]
           c == cfg.chan
       IN  d # NoDispatch =>
             /\ Unconfigured(c) =>
                   (~d.attempts[1].ret /\ d.calls = 0 /\ EmailAttempted(d))
             /\ ~Unconfigured(c) =>
                   /\ d.attempts[1].ret <=> d.done = Len(c.PHONE_LIST)
                   /\ d.calls > d.done => (~d.attempts[1].ret /\ EmailAttempted(d))
                   /\ d.calls >= 1

\* The first number was sent, the call for the second raised, and the email
\* relay was attempted.
C14_Witness ==
    /\ dispatch["poll"].done = 1
    /\ dispatch["poll"].calls = 2
    /\ ~dispatch["poll"].attempts[1].ret
    /\ EmailAttempted(dispatch["poll"])

\* No thread is between line 153 and its writes.
AtStart == \A p \in Threads : pc[p] \in {"idle", "L153", "L155"}

\* C19: when whole evaluations run one at a time, cooldown_until is
\* datetime.min at the start of every evaluation that finds last_state
\* Normal; so every Normal->Asserted change of last_state (line 157) passes
\* the check of line 161 and is followed by exactly one AlarmRaised, no alarm
\* is ever suppressed, and AlarmRaised is dispatched by nothing else.
C19_SerialNeverSuppressed ==
    [][/\ (AtStart /\ ~last_state => cooldown_until = DatetimeMin)'
       /\ events'.Suppressed = 0
       /\ events'.AlarmRaised # events.AlarmRaised =>
             \E p \in Threads : Leaves(p, "L162") /\ ~prior[p].was
       /\ \A p \in Threads :
            /\ (Leaves(p, "L157") /\ state[p]) => (~last_state /\ pc'[p] = "L161")
            /\ Leaves(p, "L161") => pc'[p] = "L162"
            /\ Leaves(p, "L162") =>
                  (pc'[p] = "L163" /\ events'.AlarmRaised = events.AlarmRaised + 1)]_vars

\* A re-assertion inside the interval of the previous AlarmRaised, after a
\* clear, is about to pass the check of line 161.
C19_Witness ==
    \E p \in Threads :
       /\ pc[p] = "L161"
       /\ ReassertedAfterClear(p)
       /\ events.AlarmRaised = 1
       /\ now[p] < last_alarm_sent + MIN_INTERVAL_S
       /\ cooldown_until = DatetimeMin
       /\ pc[Other(p)] = "idle"

\* Every thread is outside check_and_alert.
BetweenEvaluations == \A p \in Threads : pc[p] = "idle"

\* C11: between evaluations cooldown_until is datetime.min or the time of
\* the most recent AlarmRaised (last_alarm_sent) plus MIN_INTERVAL_S, hence
\* not earlier than that time; it is changed only at line 165, after the
\* check of line 161 has passed, and at line 173.
C11_DeadlineInvariant ==
    [][/\ (BetweenEvaluations =>
              \/ cooldown_until = DatetimeMin
              \/ /\ cooldown_until = last_alarm_sent + MIN_INTERVAL_S
                 /\ cooldown_until >= last_alarm_sent)'
       /\ cooldown_until' # cooldown_until =>
             \E p \in Threads :
                \/ Leaves(p, "L165") /\ state[p]
                \/ Leaves(p, "L173") /\ ~state[p]]_vars

\* C16: under concurrent evaluations, whenever line 157 changes last_state
\* from Normal to Asserted after an earlier evaluation changed it from
\* Asserted to Normal (also while that evaluation is still at line 171 or
\* 173), the evaluation passes line 161 and dispatches AlarmRaised: it never
\* takes the suppressed branch.
C16_ReassertionNeverSuppressed ==
    [][\A p \in Threads :
         (pc[p] = "L161" /\ ReassertedAfterClear(p) /\ pc'[p] # "L161")
            => (pc'[p] = "L162" /\ events'.Suppressed = events.Suppressed)]_vars

\* C20: started with the contact asserted, last_state is Asserted without
\* any dispatch, nothing is dispatched for as long as the contact stays
\* asserted, and with SEND_CLEAR on the first notification of the run is an
\* AlarmCleared: no AlarmRaised is dispatched before it.
C20_StartupAsserted ==
    StartedAsserted =>
       /\ toggles = 0 =>
             (last_state /\ events.AlarmRaised = 0 /\ events.AlarmCleared = 0)
       /\ (cfg.SEND_CLEAR /\ events.AlarmRaised > 0) => events.AlarmCleared > 0

\* C17: line 157 never replaces the value of last_state by a different one
\* sampled before a sample of the other thread that the other thread has
\* already assigned; so while the contact, Normal at the start, has asserted
\* once and not changed since, no evaluation reaches line 171 or line 173.
C17_NoStaleReading ==
    [][\A p \in Threads :
         /\ (Leaves(p, "L157") /\ obs.age[p] = "stale") =>
               last_state' = last_state
         /\ (~StartedAsserted /\ toggles = 1 /\ toggles' = 1) =>
               pc'[p] \notin {"L171", "L173"}]_vars

\* C12: with SEND_CLEAR on and the contact Normal at the start, while every
\* sample of line 153 differs from the sample before it, no alarm is
\* suppressed and, between evaluations, each sample has produced its event:
\* after k samples AlarmRaised has been dispatched for the 1st, 3rd, ... and
\* AlarmCleared for the 2nd, 4th, ... (five samples: three AlarmRaised and
\* two AlarmCleared, alternating).
C12_OneEventPerEdge ==
    (obs.on /\ cfg.SEND_CLEAR /\ ~StartedAsserted /\ obs.alt >= 0) =>
       /\ events.Suppressed = 0
       /\ BetweenEvaluations =>
             /\ events.AlarmRaised = (obs.alt + 1) \div 2
             /\ events.AlarmCleared = obs.alt \div 2

\* No channel can succeed: telephony is off and no SMTP host is set.
NoChannel(c) == ~c.TWILIO_ENABLED /\ ~c.SMTP_HOST

C18_PollBackstop ==
    /\ \A k \in 1..MaxToggles :
          (toggles = k /\ last_state # alarm_asserted)
             ~> (toggles # k \/ last_state = alarm_asserted)
    /\ \A k \in 1..MaxToggles :
          (toggles = k /\ alarm_asserted /\ ~last_state
                /\ clock >= cooldown_until)
             ~> (toggles # k \/ pc["poll"] = "L163")

\* The contact rose, its edge callback is still queued, and the poll loop
\* has taken the change and called notify(ALARM_MSG).
C18_Witness ==
    /\ toggles = 1 /\ pending = 1
    /\ alarm_asserted /\ last_state
    /\ pc["poll"] = "L163"
    /\ pc["callback"] = "idle"
    /\ events.AlarmRaised = 1

====
